---- MODULE Spec2Model ----
(***************************************************************************)
(* Classification pipeline of GirchiFin (main.py, map_transactions.py).    *)
(*                                                                         *)
(* A DataFrame is a record [cols, rows]: cols is the set of the optional   *)
(* columns that exist, rows the sequence of its rows.  A text value        *)
(* (description, partner name) is a sequence of tokens, a token being a    *)
(* chunk of characters; the one-character tokens are listed in OneChar.    *)
(* Georgian text is written transliterated, the original in a comment.     *)
(***************************************************************************)
EXTENDS Integers, Sequences, FiniteSets, TLC

\* ------------------------------------------------------------------ values

\* pandas NaN / Python None in a text column (Original Description, Partner Name)
NaN == <<"<NaN>">>
\* None / NaN in a label column (category, sub-category, account, internal map)
None == "<None>"
\* an absent amount (NaN in Paid In / Paid Out)
NoAmount == -1

\* str(x), Series.astype(str): NaN becomes the text 'nan'
Str(x) == IF x = NaN THEN <<"nan">> ELSE x

\* astype(str) on a label column: NaN becomes the string 'nan'
StrLabel(x) == IF x = None THEN "nan" ELSE x

\* Series.fillna(0)
fillna0(x) == IF x = NoAmount THEN 0 ELSE x

\* the tokens that are a single character
OneChar == {".", "-", " "}

\* str.lower() and the folding of re.IGNORECASE, on the tokens that have case
\* (VAXTANGI stands for the Mtavruli capitals of vaxtangi)
Lower(t) ==
  CASE t = "FACEBK"     -> "facebk"
    [] t = "Google"     -> "google"
    [] t = "BUZZSPROUT" -> "buzzsprout"
    [] t = "VAXTANGI"   -> "vaxtangi"
    [] OTHER            -> t

LowerText(s) == [j \in DOMAIN s |-> Lower(s[j])]

\* Python's  name in text  (plain substring)
PyIn(name, text) ==
  \E off \in 0..(Len(text) - Len(name)) :
    \A j \in 1..Len(name) : name[j] = text[off + j]

\* a regular expression is a sequence of elements: a literal token or '.'
Lit(t) == [any |-> FALSE, tok |-> t]
AnyChar == [any |-> TRUE, tok |-> "."]

\* a keyword handed to str.contains as it is: its '.' is the regex wildcard
Regex(kw) == [j \in DOMAIN kw |-> IF kw[j] = "." THEN AnyChar ELSE Lit(kw[j])]

\* re.escape(keyword): every character is a literal
re_escape(kw) == [j \in DOMAIN kw |-> Lit(kw[j])]

\* one regex element against one token, case=False
ElemMatch(e, t) == IF e.any THEN t \in OneChar ELSE Lower(e.tok) = Lower(t)

\* re.search of one alternative in a text
Search(pat, text) ==
  \E off \in 0..(Len(text) - Len(pat)) :
    \A j \in 1..Len(pat) : ElemMatch(pat[j], text[off + j])

\* Series.str.contains(pattern, case=False, na=False) on one cell;
\* pats is the set of alternatives of the pattern; NaN gives False
str_contains(cell, pats) ==
  IF cell = NaN THEN FALSE ELSE \E p \in pats : Search(p, cell)


\* ------------------------------------------------------------- data frames

CatCol == "D) Mapped Description"
SubCol == "E) Sub-description"
MapCol == "AD) Partner Account Internal Map"
SrcAcctCol == "Source Account"

\* config.INTERNAL_ACCOUNTS
INTERNAL_ACCOUNTS ==
  { "GE59BG0000000533997843", "GE21TB7772545167800001", "GE78BG0000000604676551",
    "GE60TB7791136080100005", "GE04TB7772536080100003", "GE74BG0000000101146034",
    "GE83TB7398736010100052" }

\* the category labels (transliterated)
Konvertacia == "konvertacia"          \* კონვერტაცია
GataniliTanxa == "gatanili tanxa"     \* გატანილი თანხა
Sxva == "sxva"                        \* სხვა
Shemowiruloba == "shemowiruloba"      \* შემოწირულობა
Xelfasi == "xelfasi"                  \* ხელფასი
Uncategorized == "Uncategorized"

Idx(df) == DOMAIN df.rows

\* df.loc[mask, 'D) Mapped Description'] = cat; df.loc[mask, 'E) Sub-description'] = sub
\* (assigning through .loc creates a missing column, filled with NaN)
\* an assignment that also marks the rows it writes as internal transfers
loc_set_tagged(df, mask, cat, sub) ==
  [ cols |-> df.cols \cup {CatCol, SubCol},
    rows |-> [i \in Idx(df) |->
                IF mask[i]
                THEN [df.rows[i] EXCEPT !.cat = cat, !.sub = sub, !.imap = "Internal Transfer"]
                ELSE df.rows[i]] ]

loc_set(df, mask, cat, sub) ==
  [ cols |-> df.cols \cup {CatCol, SubCol},
    rows |-> [i \in Idx(df) |->
                IF mask[i] THEN [df.rows[i] EXCEPT !.cat = cat, !.sub = sub]
                ELSE df.rows[i]] ]

\* a rule that forgets the guard: every row counts as uncategorized
uncategorized_mask_unguarded(df) == [i \in Idx(df) |-> TRUE]

\* uncategorized_mask = ~df.get('D) Mapped Description', pd.Series(dtype=bool)).notna()
\* as it acts in  uncategorized_mask & <mask over df.index> : when the column is
\* missing the default is an EMPTY series, which the & aligns to df.index with
\* every missing entry False
uncategorized_mask(df) ==
  [i \in Idx(df) |-> IF CatCol \in df.cols THEN df.rows[i].cat = None ELSE FALSE]

\* the shape shared by the rules: mask = uncategorized_mask & matches, where
\* matches is the rule's predicate on every row, then two .loc assignments
RuleApply(df, matches, cat, sub) ==
  LET um == uncategorized_mask(df)
      mask == [i \in Idx(df) |-> um[i] /\ matches[i]]
  IN  loc_set(df, mask, cat, sub)

\* ------------------------------------------------------------ chain rules

bt_bog_match(r) ==
  /\ r.src \in {"BT BOG.xlsx"}
  /\ r.paidIn = 175
  /\ r.paidIn > 0
  /\ fillna0(r.paidOut) = 0

bt_tbc_match(r) ==
  /\ r.src \in {"BT TBC GEL.xlsx"}
  /\ r.paidIn \in {175, 176, 200}
  /\ r.paidIn > 0
  /\ fillna0(r.paidOut) = 0

\* both masks are computed before either assignment
apply_bt_specific_rules(df) ==
  LET um == uncategorized_mask(df)
      bog == [i \in Idx(df) |-> um[i] /\ bt_bog_match(df.rows[i])]
      tbc == [i \in Idx(df) |-> um[i] /\ bt_tbc_match(df.rows[i])]
  IN  loc_set(loc_set(df, bog, "bt", "BT BOG 175 GEL income rule"),
              tbc, "bt", "BT TBC specific amount income rule")

beta_girchi_match(r) == str_contains(r.desc, {Regex(<<"beta", ".", "girchi">>)})

apply_beta_girchi_rule(df) ==
  RuleApply(df, [i \in Idx(df) |-> beta_girchi_match(df.rows[i])],
            Shemowiruloba, "beta.girchi donation rule")

\* რეზერვის თანხა
rezervis_match(r) == str_contains(r.desc, {Regex(<<"rezervis", " ", "tanxa">>)})

apply_rezervis_tanxa_rule(df) ==
  RuleApply(df, [i \in Idx(df) |-> rezervis_match(df.rows[i])],
            Shemowiruloba, "rezervis tanxa donation rule")

\* კკკ
kkk_match(r) == str_contains(r.desc, {Regex(<<"kkk">>)})

apply_kkk_salary_rule(df) ==
  RuleApply(df, [i \in Idx(df) |-> kkk_match(df.rows[i])],
            Xelfasi, "kkk salary rule")

\* საკომის -> საკომისიო
sakomis_match(r) == str_contains(r.desc, {Regex(<<"sakomis">>)})

apply_sakomis_commission_rule(df) ==
  RuleApply(df, [i \in Idx(df) |-> sakomis_match(df.rows[i])],
            "sakomisio", "sakomis commission rule")

facebook_match(r) == str_contains(r.desc, {Regex(<<"FACEBK">>)})

\* -> რეკლამა
apply_facebook_ads_rule(df) ==
  RuleApply(df, [i \in Idx(df) |-> facebook_match(df.rows[i])],
            "reklama", "FACEBK ads rule")

konvertacia_match(r) == str_contains(r.desc, {Regex(<<"konvertacia">>)})

apply_konvertacia_rule(df) ==
  RuleApply(df, [i \in Idx(df) |-> konvertacia_match(df.rows[i])],
            Konvertacia, "konvertacia keyword rule")

service_keywords ==
  { <<"BUZZSPROUT">>, <<"Mailchimp">>, <<"DIGITALOCEAN", ".", "COM">>, <<"Google">>,
    <<"CLOUDFLARE">>, <<"VEED">>, <<"2CO", ".", "COM">>,
    <<"WWW", ".", "VMIX", ".", "COM">>, <<"TALLY", ".", "SO">>, <<"ZOOM", ".", "COM">> }

server_match(r) == str_contains(r.desc, {re_escape(k) : k \in service_keywords})

\* -> სერვერები
apply_server_services_rule(df) ==
  RuleApply(df, [i \in Idx(df) |-> server_match(df.rows[i])],
            "serverebi", "Server/digital services rule")

\* საპენსიო
sapensio_match(r) == str_contains(r.desc, {Regex(<<"sapensio">>)})

apply_sapensio_salary_rule(df) ==
  RuleApply(df, [i \in Idx(df) |-> sapensio_match(df.rows[i])],
            Xelfasi, "sapensio salary rule")

\* მონტაჟის საფასური
montajis_match(r) == str_contains(r.desc, {Regex(<<"montajis", " ", "safasuri">>)})

apply_montajis_safasuri_rule(df) ==
  RuleApply(df, [i \in Idx(df) |-> montajis_match(df.rows[i])],
            Xelfasi, "montajis safasuri salary rule")

\* მერჩი
merchi_match(r) == str_contains(r.desc, {Regex(<<"merchi">>)})

apply_merchi_keyword_rule(df) ==
  RuleApply(df, [i \in Idx(df) |-> merchi_match(df.rows[i])],
            "merchi", "merchi keyword rule")

\* დაზღვ -> დაზღვევა
dazgveva_match(r) == str_contains(r.desc, {Regex(<<"dazgv">>)})

apply_dazgveva_rule(df) ==
  RuleApply(df, [i \in Idx(df) |-> dazgveva_match(df.rows[i])],
            "dazgveva", "dazgv insurance rule")

mevafinansebbts_match(r) == str_contains(r.desc, {Regex(<<"mevafinansebbts">>)})

apply_mevafinansebbts_rule(df) ==
  RuleApply(df, [i \in Idx(df) |-> mevafinansebbts_match(df.rows[i])],
            Shemowiruloba, "mevafinansebbts donation rule")

\* მაგთი, სილქ
utility_companies == { <<"magti">>, <<"silq">> }

\* Partner Name only, through astype(str)
utility_match(r) == str_contains(Str(r.pname), {re_escape(c) : c \in utility_companies})

\* -> კომუნალური
apply_utility_companies_rule(df) ==
  RuleApply(df, [i \in Idx(df) |-> utility_match(df.rows[i])],
            "komunaluri", "Utility company rule")

\* რაქვიაშვილი, მეგრელიშვილი, ჰერმან, იაგო ხვიჩია, ნარტყოშვილი
target_names ==
  { <<"raqviashvili">>, <<"megrelishvili">>, <<"herman">>, <<"iago", " ", "xvichia">>,
    <<"nartyoshvili">> }

specific_people_match(r) ==
  LET pattern == {re_escape(n) : n \in target_names}
  IN  \/ str_contains(Str(r.desc), pattern)
      \/ str_contains(Str(r.pname), pattern)

apply_specific_people_gatanili_rule(df) ==
  RuleApply(df, [i \in Idx(df) |-> specific_people_match(df.rows[i])],
            GataniliTanxa, "Name-based mapping rule")

\* the eighteen salary recipients
names ==
  { <<"levan", " ", "jgerenaia">>, <<"nugzar", " ", "tabatadze">>,
    <<"revazi", " ", "sutidze">>, <<"mayvala", " ", "giorgadze">>,
    <<"iza", " ", "nadareishvili">>, <<"marika", " ", "verulidze">>,
    <<"lizi", " ", "shewiruli">>, <<"giorgi", " ", "pachikashvili">>,
    <<"vako", " ", "teneishvili">>, <<"tedo", " ", "jabua">>, <<"ana", " ", "nodia">>,
    <<"giorgi", " ", "sologashvili">>, <<"rusudani", " ", "abuashvili">>,
    <<"simon", " ", "garibashvili">>, <<"avtandil", " ", "labadze">>,
    <<"eka", " ", "oniani">>, <<"boris", " ", "solomonia">>,
    <<"vaxtang", " ", "teneishvili">> }

salary_name_match(r) ==
  LET pattern == {re_escape(n) : n \in names}
  IN  \/ str_contains(Str(r.desc), pattern)
      \/ str_contains(Str(r.pname), pattern)

apply_salary_name_mapping_rule(df) ==
  RuleApply(df, [i \in Idx(df) |-> salary_name_match(df.rows[i])],
            Xelfasi, "Salary name mapping rule")

\* ---------------------------------------------------- restriction filter

\* ვახტანგი მეგრელიშვილი, ალექსანდრე რაქვიაშვილი, იაგო ხვიჩია, ჰერმან საბო
approved_names ==
  { <<"vaxtangi", " ", "megrelishvili">>, <<"aleqsandre", " ", "raqviashvili">>,
    <<"iago", " ", "xvichia">>, <<"herman", " ", "sabo">> }

\* any(name.lower() in description for name in approved_names)
name_found(description) ==
  \E name \in approved_names : PyIn(LowerText(name), description)

\* a filter that also accepts an approved name found in the partner name
restrict_row_partner(r) ==
  IF /\ r.cat = GataniliTanxa
     /\ ~ name_found(LowerText(Str(r.desc)))
     /\ ~ name_found(LowerText(Str(r.pname)))
  THEN [r EXCEPT !.cat = Sxva, !.sub = "gatanili tanxa restriction applied"]
  ELSE r

\* the body of the loop, for one row
restrict_row(r) ==
  LET description == LowerText(Str(r.desc))
  IN  IF r.cat = GataniliTanxa /\ ~ name_found(description)
      THEN [r EXCEPT !.cat = Sxva, !.sub = "gatanili tanxa restriction applied"]
      ELSE r

Least(S) == CHOOSE i \in S : \A j \in S : i <= j

\* a filter that returns from inside the loop, after the first row it looks at
apply_gatanili_tanxa_restrictions_first(df) ==
  LET g == {i \in Idx(df) : df.rows[i].cat = GataniliTanxa}
      rows == [i \in Idx(df) |->
                 IF g # {} /\ i = Least(g) THEN restrict_row(df.rows[i])
                 ELSE df.rows[i]]
  IN  [ cols |-> IF rows # df.rows THEN df.cols \cup {SubCol} ELSE df.cols,
        rows |-> rows ]

\* reads df['D) Mapped Description'], so the frame must have the column
apply_gatanili_tanxa_restrictions(df) ==
  LET rows == [i \in Idx(df) |-> restrict_row(df.rows[i])]
  IN  [ cols |-> IF rows # df.rows THEN df.cols \cup {SubCol} ELSE df.cols,
        rows |-> rows ]

\* ------------------------------------------------------ transfer resolver

\* a resolver whose last comparison is == instead of !=
map_internal_transfers_same(df, internal_accounts_list) ==
  LET hasSrc == SrcAcctCol \in df.cols
      typed == [i \in Idx(df) |->
                  [df.rows[i] EXCEPT !.pacct = StrLabel(@),
                                     !.sacct = IF hasSrc THEN StrLabel(@) ELSE ""]]
      mapped == [i \in Idx(df) |->
                   [typed[i] EXCEPT !.imap =
                      IF typed[i].pacct \in internal_accounts_list
                      THEN "Internal Transfer" ELSE "External"]]
      mask == [i \in Idx(df) |->
                 /\ mapped[i].sacct \in internal_accounts_list
                 /\ mapped[i].pacct \in internal_accounts_list
                 /\ mapped[i].pacct # "nan"
                 /\ mapped[i].pacct # ""
                 /\ mapped[i].sacct = mapped[i].pacct]
  IN  loc_set([cols |-> df.cols \cup {SrcAcctCol, MapCol}, rows |-> mapped],
              mask, Konvertacia, "Internal account transfer")

\* a resolver that, like the rules, leaves a row that has a category alone
map_internal_transfers_guarded(df, internal_accounts_list) ==
  LET hasSrc == SrcAcctCol \in df.cols
      typed == [i \in Idx(df) |->
                  [df.rows[i] EXCEPT !.pacct = StrLabel(@),
                                     !.sacct = IF hasSrc THEN StrLabel(@) ELSE ""]]
      mapped == [i \in Idx(df) |->
                   [typed[i] EXCEPT !.imap =
                      IF typed[i].pacct \in internal_accounts_list
                      THEN "Internal Transfer" ELSE "External"]]
      mask == [i \in Idx(df) |->
                 /\ mapped[i].cat = None
                 /\ mapped[i].sacct \in internal_accounts_list
                 /\ mapped[i].pacct \in internal_accounts_list
                 /\ mapped[i].pacct # "nan"
                 /\ mapped[i].pacct # ""
                 /\ mapped[i].sacct # mapped[i].pacct]
  IN  loc_set([cols |-> df.cols \cup {SrcAcctCol, MapCol}, rows |-> mapped],
              mask, Konvertacia, "Internal account transfer")

map_internal_transfers(df, internal_accounts_list) ==
  LET hasSrc == SrcAcctCol \in df.cols
      typed == [i \in Idx(df) |->
                  [df.rows[i] EXCEPT !.pacct = StrLabel(@),
                                     !.sacct = IF hasSrc THEN StrLabel(@) ELSE ""]]
      mapped == [i \in Idx(df) |->
                   [typed[i] EXCEPT !.imap =
                      IF typed[i].pacct \in internal_accounts_list
                      THEN "Internal Transfer" ELSE "External"]]
      mask == [i \in Idx(df) |->
                 /\ mapped[i].sacct \in internal_accounts_list
                 /\ mapped[i].pacct \in internal_accounts_list
                 /\ mapped[i].pacct # "nan"
                 /\ mapped[i].pacct # ""
                 /\ mapped[i].sacct # mapped[i].pacct]
  IN  loc_set([cols |-> df.cols \cup {SrcAcctCol, MapCol}, rows |-> mapped],
              mask, Konvertacia, "Internal account transfer")

\* ----------------------------------------------------- fallback classifier

\* a parsed JSON value: a dict (a function on the keys it has) or something else
Dict(f) == [isdict |-> TRUE, d |-> f]
NotDict == [isdict |-> FALSE, d |-> <<>>]

\* dict.get(key): None when the key is missing
Get(x, key) == IF key \in DOMAIN x.d THEN x.d[key] ELSE None

UncategorizedResult == Dict([key \in {"category", "subcategory"} |->
                               IF key = "category" THEN Uncategorized ELSE ""])

\* what the chat completion can answer: message content that is a JSON object
\* (with or without the two fields), JSON that is no object, or no JSON at all
Contents ==
  { [kind |-> "object", value |-> Dict([key \in {"category", "subcategory"} |->
                                          IF key = "category" THEN GataniliTanxa ELSE "ai"])],
    [kind |-> "object", value |-> Dict([key \in {"category", "subcategory"} |->
                                          IF key = "category" THEN Sxva ELSE "ai"])],
    [kind |-> "object", value |-> Dict([key \in {"category", "subcategory"} |->
                                          IF key = "category" THEN Konvertacia ELSE "ai"])],
    [kind |-> "object", value |-> Dict([key \in {"category", "subcategory"} |->
                                          IF key = "category" THEN None ELSE "ai"])],
    [kind |-> "object", value |-> Dict([key \in {"subcategory"} |-> "ai"])],
    [kind |-> "object", value |-> Dict([key \in {"category"} |-> Sxva])],
    [kind |-> "array", value |-> NotDict],
    [kind |-> "invalid", value |-> NotDict] }

\* the outcome of the one request a call makes: it raises or answers a content
Outcomes == {[raised |-> TRUE, content |-> [kind |-> "invalid", value |-> NotDict]]}
            \cup {[raised |-> FALSE, content |-> c] : c \in Contents}

\* try: return json.loads(content)  except Exception: return Uncategorized
parse_content(content) ==
  IF content.kind = "invalid" THEN UncategorizedResult ELSE content.value

\* a classifier that sends every description it is handed, empty or not
get_ai_categorization_unchecked(description, outcome) ==
  IF outcome.raised
  THEN [raised |-> TRUE, value |-> NotDict, requests |-> 1]
  ELSE [raised |-> FALSE, value |-> parse_content(outcome.content), requests |-> 1]

\* get_ai_categorization(description) where the request it makes ends in outcome.
\* With the v1 openai package the request is client.chat.completions.create and,
\* when it raises, openai.ChatCompletion.create raises in turn without a request;
\* with the legacy package  from openai import OpenAI  raises and the request is
\* openai.ChatCompletion.create.  Either way there is one request, and its
\* exception leaves the function.  Returns what the function returns, whether it
\* raised, and the number of requests made.
get_ai_categorization(description, outcome) ==
  IF description = <<>> \/ description = NaN
  THEN [raised |-> FALSE, value |-> UncategorizedResult, requests |-> 0]
  ELSE IF outcome.raised
  THEN [raised |-> TRUE, value |-> NotDict, requests |-> 1]
  ELSE [raised |-> FALSE, value |-> parse_content(outcome.content), requests |-> 1]

\* main's mask: every row when the column is missing
main_uncategorized_mask(df) ==
  [i \in Idx(df) |-> IF CatCol \in df.cols THEN df.rows[i].cat = None ELSE TRUE]

\* master_df[mask]['Original Description'].dropna().unique(): the distinct
\* descriptions of the first n rows, in order of first appearance
RECURSIVE unique_upto(_, _, _)
unique_upto(df, mask, n) ==
  IF n = 0 THEN <<>>
  ELSE LET before == unique_upto(df, mask, n - 1)
           d == df.rows[n].desc
       IN  IF mask[n] /\ d # NaN /\ ~ \E j \in DOMAIN before : before[j] = d
           THEN Append(before, d) ELSE before

unique_descriptions_of(df, mask) == unique_upto(df, mask, Len(df.rows))

\* master_df['ai_map'] = description.map(ai_mappings), then the two .loc
\* assignments on the rows of the mask; mappings is a sequence of
\* [desc, value] pairs, one per requested description
ai_lookup(mappings, desc) ==
  IF \E j \in DOMAIN mappings : mappings[j].desc = desc
  THEN mappings[CHOOSE j \in DOMAIN mappings : mappings[j].desc = desc].value
  ELSE NotDict

\* a fallback step whose two assignments are not restricted to the mask
fallback_apply_all(df, mask, mappings) ==
  [ cols |-> df.cols \cup {CatCol, SubCol, "ai_map"},
    rows |-> [i \in Idx(df) |->
                LET x == ai_lookup(mappings, df.rows[i].desc)
                IN  [df.rows[i] EXCEPT
                       !.cat = IF x.isdict THEN Get(x, "category") ELSE Uncategorized,
                       !.sub = IF x.isdict THEN Get(x, "subcategory") ELSE ""]] ]

fallback_apply(df, mask, mappings) ==
  [ cols |-> df.cols \cup {CatCol, SubCol, "ai_map"},
    rows |-> [i \in Idx(df) |->
                LET x == ai_lookup(mappings, df.rows[i].desc)
                IN  IF mask[i]
                    THEN [df.rows[i] EXCEPT
                            !.cat = IF x.isdict THEN Get(x, "category") ELSE Uncategorized,
                            !.sub = IF x.isdict THEN Get(x, "subcategory") ELSE ""]
                    ELSE df.rows[i]] ]

\* ------------------------------------------------------------ orchestrator

\* an orchestrator that calls the commission rule before the rezervis tanxa rule
ChainCommissionFirst ==
  << "apply_bt_specific_rules", "apply_beta_girchi_rule",
     "apply_specific_people_gatanili_rule", "apply_salary_name_mapping_rule",
     "apply_sakomis_commission_rule", "apply_kkk_salary_rule",
     "apply_rezervis_tanxa_rule", "apply_facebook_ads_rule",
     "apply_konvertacia_rule", "apply_server_services_rule",
     "apply_sapensio_salary_rule", "apply_montajis_safasuri_rule",
     "apply_merchi_keyword_rule", "apply_dazgveva_rule",
     "apply_mevafinansebbts_rule", "apply_utility_companies_rule" >>

\* the sixteen rules in the order main calls them
Chain ==
  << "apply_bt_specific_rules", "apply_beta_girchi_rule",
     "apply_specific_people_gatanili_rule", "apply_salary_name_mapping_rule",
     "apply_rezervis_tanxa_rule", "apply_kkk_salary_rule",
     "apply_sakomis_commission_rule", "apply_facebook_ads_rule",
     "apply_konvertacia_rule", "apply_server_services_rule",
     "apply_sapensio_salary_rule", "apply_montajis_safasuri_rule",
     "apply_merchi_keyword_rule", "apply_dazgveva_rule",
     "apply_mevafinansebbts_rule", "apply_utility_companies_rule" >>

ChainRules == {Chain[j] : j \in DOMAIN Chain}

Resolver == "map_internal_transfers"
Fallback == "get_ai_categorization"
Restriction == "apply_gatanili_tanxa_restrictions"

\* an orchestrator that filters before the fallback classification
StagesFilterFirst == <<Resolver>> \o Chain \o <<Restriction, Fallback>>

\* the statements of main, section 3, in program order
Stages == <<Resolver>> \o Chain \o <<Fallback, Restriction>>

\* the call of one rule by its name
ApplyRule(name, df) ==
  CASE name = "apply_bt_specific_rules"             -> apply_bt_specific_rules(df)
    [] name = "apply_beta_girchi_rule"              -> apply_beta_girchi_rule(df)
    [] name = "apply_specific_people_gatanili_rule" -> apply_specific_people_gatanili_rule(df)
    [] name = "apply_salary_name_mapping_rule"      -> apply_salary_name_mapping_rule(df)
    [] name = "apply_rezervis_tanxa_rule"           -> apply_rezervis_tanxa_rule(df)
    [] name = "apply_kkk_salary_rule"               -> apply_kkk_salary_rule(df)
    [] name = "apply_sakomis_commission_rule"       -> apply_sakomis_commission_rule(df)
    [] name = "apply_facebook_ads_rule"             -> apply_facebook_ads_rule(df)
    [] name = "apply_konvertacia_rule"              -> apply_konvertacia_rule(df)
    [] name = "apply_server_services_rule"          -> apply_server_services_rule(df)
    [] name = "apply_sapensio_salary_rule"          -> apply_sapensio_salary_rule(df)
    [] name = "apply_montajis_safasuri_rule"        -> apply_montajis_safasuri_rule(df)
    [] name = "apply_merchi_keyword_rule"           -> apply_merchi_keyword_rule(df)
    [] name = "apply_dazgveva_rule"                 -> apply_dazgveva_rule(df)
    [] name = "apply_mevafinansebbts_rule"          -> apply_mevafinansebbts_rule(df)
    [] name = "apply_utility_companies_rule"        -> apply_utility_companies_rule(df)

\* the predicate of one rule, without its guard
RuleMatch(name, r) ==
  CASE name = "apply_bt_specific_rules"             -> bt_bog_match(r) \/ bt_tbc_match(r)
    [] name = "apply_beta_girchi_rule"              -> beta_girchi_match(r)
    [] name = "apply_specific_people_gatanili_rule" -> specific_people_match(r)
    [] name = "apply_salary_name_mapping_rule"      -> salary_name_match(r)
    [] name = "apply_rezervis_tanxa_rule"           -> rezervis_match(r)
    [] name = "apply_kkk_salary_rule"               -> kkk_match(r)
    [] name = "apply_sakomis_commission_rule"       -> sakomis_match(r)
    [] name = "apply_facebook_ads_rule"             -> facebook_match(r)
    [] name = "apply_konvertacia_rule"              -> konvertacia_match(r)
    [] name = "apply_server_services_rule"          -> server_match(r)
    [] name = "apply_sapensio_salary_rule"          -> sapensio_match(r)
    [] name = "apply_montajis_safasuri_rule"        -> montajis_match(r)
    [] name = "apply_merchi_keyword_rule"           -> merchi_match(r)
    [] name = "apply_dazgveva_rule"                 -> dazgveva_match(r)
    [] name = "apply_mevafinansebbts_rule"          -> mevafinansebbts_match(r)
    [] name = "apply_utility_companies_rule"        -> utility_match(r)

\* the label one rule writes
RuleTarget(name) ==
  CASE name = "apply_bt_specific_rules"             -> "bt"
    [] name = "apply_beta_girchi_rule"              -> Shemowiruloba
    [] name = "apply_specific_people_gatanili_rule" -> GataniliTanxa
    [] name = "apply_salary_name_mapping_rule"      -> Xelfasi
    [] name = "apply_rezervis_tanxa_rule"           -> Shemowiruloba
    [] name = "apply_kkk_salary_rule"               -> Xelfasi
    [] name = "apply_sakomis_commission_rule"       -> "sakomisio"
    [] name = "apply_facebook_ads_rule"             -> "reklama"
    [] name = "apply_konvertacia_rule"              -> Konvertacia
    [] name = "apply_server_services_rule"          -> "serverebi"
    [] name = "apply_sapensio_salary_rule"          -> Xelfasi
    [] name = "apply_montajis_safasuri_rule"        -> Xelfasi
    [] name = "apply_merchi_keyword_rule"           -> "merchi"
    [] name = "apply_dazgveva_rule"                 -> "dazgveva"
    [] name = "apply_mevafinansebbts_rule"          -> Shemowiruloba
    [] name = "apply_utility_companies_rule"        -> "komunaluri"

\* -------------------------------------------------------------- normalizer

\* a configuration whose TBC statements also name a 'Source Account' column
FILE_CONFIGS_source ==
  [ key \in { "GIRCHI TBC GEL", "GIRCHI TBC USD", "BT TBC GEL", "BT BOG", "TV36 BOG",
              "BORIS TBC", "BORIS BOG" } |->
      IF key \in {"BT BOG", "TV36 BOG"}
      THEN [ column_map |-> {"Date", "Original Description", "Paid Out", "Paid In", "Balance"},
             conditional_partner_account |-> TRUE ]
      ELSE [ column_map |-> {"Date", "Original Description", "Paid Out", "Paid In", "Balance",
                             "Partner Account", "Source Account"},
             conditional_partner_account |-> FALSE ] ]

\* config.FILE_CONFIGS: per statement, the names its column_map gives to sheet
\* columns, and whether it has a conditional_partner_account
FILE_CONFIGS ==
  [ key \in { "GIRCHI TBC GEL", "GIRCHI TBC USD", "BT TBC GEL", "BT BOG", "TV36 BOG",
              "BORIS TBC", "BORIS BOG" } |->
      IF key \in {"BT BOG", "TV36 BOG"}
      THEN [ column_map |-> {"Date", "Original Description", "Paid Out", "Paid In", "Balance"},
             conditional_partner_account |-> TRUE ]
      ELSE IF key = "BORIS BOG"
      THEN [ column_map |-> {"Date", "Original Description", "Paid Out", "Paid In",
                             "Partner Account"},
             conditional_partner_account |-> FALSE ]
      ELSE [ column_map |-> {"Date", "Original Description", "Paid Out", "Paid In", "Balance",
                             "Partner Account"},
             conditional_partner_account |-> FALSE ] ]

\* the columns of the frame process_statement returns for one configuration
processed_columns(config) ==
  config.column_map
    \cup (IF config.conditional_partner_account THEN {"Partner Account"} ELSE {})
    \cup {"Partner Name", "Source File"}

\* the columns of master_df = pd.concat(all_dfs): those of any statement
consolidated_columns ==
  UNION {processed_columns(FILE_CONFIGS[key]) : key \in DOMAIN FILE_CONFIGS}

\* what pd.to_datetime(errors='coerce') makes of a cell that is no date
NaT == "<NaT>"

\* pd.to_datetime(cell, errors='coerce').dt.date
to_date(cell) == IF cell = "2024-01-15 00:00:00" THEN "2024-01-15" ELSE NaT

\* process_statement(filepath, config) on the rows read from the sheet: rows
\* without a Date cell are dropped, the file name is added, the Date is
\* converted and the amounts are made numeric
process_statement(sheet, file_key) ==
  LET config == FILE_CONFIGS[file_key]
      dated(r) == r.date # None
      kept == SelectSeq(sheet.rows, dated)
  IN  IF kept = <<>> THEN [cols |-> {}, rows |-> <<>>]
      ELSE [ cols |-> processed_columns(config) \cap {SrcAcctCol, CatCol, SubCol, MapCol},
             rows |-> [i \in DOMAIN kept |->
                         [kept[i] EXCEPT !.src = file_key \o ".xlsx",
                                         !.date = to_date(@),
                                         !.paidOut = fillna0(@),
                                         !.paidIn = fillna0(@),
                                         !.balance = fillna0(@)]] ]

\* ------------------------------------------------------------------ inputs

\* rows in a frame handed to the pipeline, at most
MaxRecs == 2
\* rows in a frame handed to one function on its own, at most
MaxFnRecs == 2
\* rows in a frame handed to two rules one after the other, at most
MaxPairRecs == 2

A1 == "GE59BG0000000533997843"
A2 == "GE21TB7772545167800001"
External == "GE00XX0000000000000000"
\* a cell holding the first registry account followed by a blank
A1Padded == "GE59BG0000000533997843 "

\* one row as process_statement leaves it (Date, Original Description, Paid Out,
\* Paid In, Balance, Partner Account, Partner Name, Source File), with the cells of
\* the columns the pipeline adds still empty
Row(src, desc, paidIn, paidOut, pacct, sacct, pname) ==
  [ src |-> src, date |-> "2024-01-15", desc |-> desc, paidOut |-> paidOut,
    paidIn |-> paidIn, balance |-> 0, pacct |-> pacct, pname |-> pname,
    sacct |-> sacct, cat |-> None, sub |-> None, imap |-> None ]

\* the rows the pipeline is run on
InputRows ==
  { Row("BT BOG.xlsx", <<"beta", "-", "girchi">>, 175, 0, None, A1, NaN),
    Row("BT TBC GEL.xlsx", <<"gadaricxva">>, 176, 0, External, A1, NaN),
    Row("BT BOG.xlsx", <<"gadaricxva">>, 176, 0, External, A1, NaN),
    Row("BT TBC GEL.xlsx", <<"kkk">>, 200, 50, External, A1, NaN),
    Row("TV36 BOG.xlsx", <<"gadaricxva", " ", "megrelishvili">>, 0, 50, External, A2, NaN),
    Row("TV36 BOG.xlsx", <<"VAXTANGI", " ", "megrelishvili">>, 0, 50, External, A2, NaN),
    Row("TV36 BOG.xlsx", <<"gadaricxva">>, 0, 50, External, A2, <<"nartyoshvili">>),
    Row("TV36 BOG.xlsx", <<"herman", " ", "boris", " ", "solomonia">>, 0, 50, "", A2, NaN),
    Row("TV36 BOG.xlsx", <<"boris", " ", "solomonia", " ", "sapensio">>, 0, 50, "", A2, NaN),
    Row("GIRCHI TBC GEL.xlsx", <<"gadaricxva">>, 0, 50, A2, A1, NaN),
    Row("GIRCHI TBC GEL.xlsx", <<"FACEBK", " ", "konvertacia">>, 0, 50, A2, A1, NaN),
    Row("GIRCHI TBC GEL.xlsx", <<"facebk", " ", "merchi">>, 0, 50, A1, A1, NaN),
    Row("GIRCHI TBC GEL.xlsx", <<"konvertacia">>, 0, 50, A2, A1, NaN),
    Row("GIRCHI TBC GEL.xlsx", NaN, 0, 50, None, A1, <<"magti">>),
    Row("GIRCHI TBC GEL.xlsx", NaN, 0, 0, None, A1, NaN),
    Row("GIRCHI TBC GEL.xlsx", <<>>, 0, 0, None, A1, NaN),
    Row("GIRCHI TBC GEL.xlsx", <<"google", " ", "dazgv">>, 0, 50, External, A1, <<"silq">>),
    Row("GIRCHI TBC GEL.xlsx", <<"rezervis", " ", "tanxa", " ", "sakomis">>, 5, 0,
        External, A1, NaN),
    Row("GIRCHI TBC GEL.xlsx", <<"montajis", " ", "safasuri", " ", "mevafinansebbts">>, 0, 50,
        External, A1, NaN),
    Row("GIRCHI TBC GEL.xlsx", <<"sxva", " ", "xarji">>, 0, 50, External, A1, NaN) }

\* a frame of the given rows; without the Source Account column its cells are empty
Frame(rows, withSource) ==
  [ cols |-> IF withSource THEN {SrcAcctCol} ELSE {},
    rows |-> [i \in DOMAIN rows |->
                IF withSource THEN rows[i] ELSE [rows[i] EXCEPT !.sacct = None]] ]

EmptyFrame == [cols |-> {}, rows |-> <<>>]

\* the rows one function is applied to on its own: the cells the functions read,
\* and any category already there
FnRows ==
  { [Row("TV36 BOG.xlsx", d[1], 0, 50, External, A1, d[2]) EXCEPT !.cat = c[1], !.sub = c[2]] :
      d \in { << <<"gadaricxva", " ", "megrelishvili">>, NaN >>,
              << <<"VAXTANGI", " ", "megrelishvili">>, NaN >>,
              << <<"gadaricxva">>, <<"herman", " ", "sabo">> >>,
              << NaN, <<"magti">> >>,
              << <<"magti">>, NaN >>,
              << <<"beta", "-", "girchi">>, NaN >>,
              << <<"beta", ".", "girchi", " ", "kkk">>, NaN >> },
      c \in { <<None, None>>, <<GataniliTanxa, "Name-based mapping rule">>,
              <<Xelfasi, "kkk salary rule">> } }

\* the rows the resolver is applied to on its own: partner and source account
\* in and out of the registry, equal, padded, empty or missing, and any category
\* already there
AcctRows ==
  { [Row("GIRCHI TBC GEL.xlsx", <<"gadaricxva">>, 0, 50, a[1], a[2], NaN)
       EXCEPT !.cat = c[1], !.sub = c[2]] :
      a \in { <<A2, A1>>, <<A1, A1>>, <<A1Padded, A1>>, <<"", A1>>, <<None, A1>>,
              <<External, A1>>, <<A2, External>> },
      c \in { <<None, None>>, <<Xelfasi, "kkk salary rule">> } }

\* the rows the BT rule is applied to on its own: the two BT statements and
\* another, the amounts the rule names, with and without a paid-out amount, and a
\* category already there
BtRows ==
  { Row(a[1], <<"gadaricxva">>, a[2], a[3], External, A1, NaN) :
      a \in { <<"BT BOG.xlsx", 175, 0>>, <<"BT BOG.xlsx", 176, 0>>,
              <<"BT BOG.xlsx", 200, 0>>, <<"BT BOG.xlsx", 175, 50>>,
              <<"BT BOG.xlsx", 175, NoAmount>>, <<"BT TBC GEL.xlsx", 175, 0>>,
              <<"BT TBC GEL.xlsx", 176, 0>>, <<"BT TBC GEL.xlsx", 200, NoAmount>>,
              <<"BT TBC GEL.xlsx", 200, 50>>, <<"BT TBC GEL.xlsx", 0, 0>>,
              <<"TV36 BOG.xlsx", 175, 0>> } }
  \cup
  { [Row(a[1], <<"gadaricxva">>, a[2], 0, External, A1, NaN)
       EXCEPT !.cat = Xelfasi, !.sub = "kkk salary rule"] :
      a \in { <<"BT BOG.xlsx", 175>>, <<"BT TBC GEL.xlsx", 176>> } }

\* rows in a sheet handed to the normalizer, at most
MaxSheetRows == 2

\* the rows of a sheet as read: the Date cell holds a date, nothing, or text that
\* is no date (the total line of a statement); an amount cell may hold nothing
SheetRows ==
  { [Row(None, <<"gadaricxva">>, a, 0, External, None, NaN) EXCEPT !.date = d] :
      d \in {"2024-01-15 00:00:00", None, "sul"}, a \in {175, NoAmount} }

\* the registries the resolver is handed: config.INTERNAL_ACCOUNTS or an empty list
Registries == {INTERNAL_ACCOUNTS, {}}

\* ------------------------------------------------------------------- state

VARIABLES
  df,                   \* master_df
  pc,                   \* index in Stages of the stage to run next
  phase,                \* "stage", "call" (inside the fallback), "done", "aborted", "fn"
  uncategorized,        \* main's uncategorized_mask
  unique_descriptions,  \* main's unique_descriptions
  ai_mappings,          \* main's ai_mappings, in the order it is filled
  requests,             \* history: the descriptions sent to the service, in order
  failed,               \* history: the descriptions whose request raised
  answers,              \* history: the content answered to each request, in order
  writer,               \* history: per row, the stage that last changed its category
  trace,                \* history: the stages started, in order
  startCat,             \* history: per row, the category after the resolver
  fn,                   \* the function applied on its own
  fnIn,                 \* its argument
  accounts,             \* the registry it is handed
  pair,                 \* the two rules applied one after the other
  out1,                 \* the frame after one application
  out2                  \* the frame after two applications

vars == << df, pc, phase, uncategorized, unique_descriptions, ai_mappings, requests,
           failed, answers, writer, trace, startCat, fn, fnIn, accounts, pair, out1, out2 >>

fnVars == << fn, fnIn, accounts, pair, out1, out2 >>
aiVars == << uncategorized, unique_descriptions, ai_mappings, requests, failed, answers >>

Cats(frame) == [i \in Idx(frame) |-> frame.rows[i].cat]

\* main after pd.concat: the rows of all statements in one frame, which has a
\* Source Account column or not
InitFrom(sourceColumn) ==
  /\ \E n \in 1..MaxRecs : \E rows \in [1..n -> InputRows] : \E withSource \in sourceColumn :
       /\ df = Frame(rows, withSource)
       /\ writer = [i \in 1..n |-> "none"]
       /\ startCat = [i \in 1..n |-> None]
  /\ pc = 1
  /\ phase = "stage"
  /\ uncategorized = <<>>
  /\ unique_descriptions = <<>>
  /\ ai_mappings = <<>>
  /\ requests = <<>>
  /\ failed = {}
  /\ answers = <<>>
  /\ trace = <<>>
  /\ fn = "none" /\ fnIn = EmptyFrame /\ out1 = EmptyFrame /\ out2 = EmptyFrame
  /\ accounts = INTERNAL_ACCOUNTS /\ pair = <<>>

\* whatever column_map the configuration has
Init == InitFrom(BOOLEAN)

\* with the column_map of config.FILE_CONFIGS
MainInit == InitFrom({SrcAcctCol \in consolidated_columns})

\* what every stage does to the bookkeeping when it replaces master_df by new
Wrote(stage, new) ==
  /\ df' = new
  /\ writer' = [i \in Idx(df) |->
                  IF new.rows[i].cat # df.rows[i].cat THEN stage ELSE writer[i]]

Advance ==
  /\ pc' = pc + 1
  /\ phase' = IF pc + 1 > Len(Stages) THEN "done" ELSE "stage"

AtStage(stage) == phase = "stage" /\ pc \in DOMAIN Stages /\ Stages[pc] = stage

\* master_df = map_internal_transfers(master_df, config.INTERNAL_ACCOUNTS)
Resolve ==
  /\ AtStage(Resolver)
  /\ LET new == map_internal_transfers(df, accounts)
     IN  Wrote(Resolver, new) /\ startCat' = Cats(new)
  /\ trace' = Append(trace, Resolver)
  /\ Advance
  /\ UNCHANGED << aiVars, fnVars >>

\* master_df = apply_..._rule(master_df), the next of the sixteen
ChainStep ==
  /\ phase = "stage" /\ pc \in DOMAIN Stages /\ Stages[pc] \in ChainRules
  /\ Wrote(Stages[pc], ApplyRule(Stages[pc], df))
  /\ trace' = Append(trace, Stages[pc])
  /\ Advance
  /\ UNCHANGED << aiVars, fnVars, startCat >>

\* uncategorized_mask and unique_descriptions
FallbackMask ==
  /\ AtStage(Fallback)
  /\ uncategorized' = main_uncategorized_mask(df)
  /\ unique_descriptions' = unique_descriptions_of(df, main_uncategorized_mask(df))
  /\ ai_mappings' = <<>>
  /\ phase' = "call"
  /\ trace' = Append(trace, Fallback)
  /\ UNCHANGED << df, pc, requests, failed, answers, writer, startCat, fnVars >>

\* one iteration of {desc: get_ai_categorization(desc) for desc in unique_descriptions};
\* an exception leaves the comprehension and main
AiCall ==
  /\ phase = "call"
  /\ Len(ai_mappings) < Len(unique_descriptions)
  /\ LET desc == unique_descriptions[Len(ai_mappings) + 1]
     IN  \E outcome \in Outcomes :
           LET res == get_ai_categorization(desc, outcome)
           IN  /\ requests' = IF res.requests = 1 THEN Append(requests, desc) ELSE requests
               /\ answers' = IF res.requests = 1 /\ ~ res.raised
                              THEN Append(answers, [desc |-> desc, content |-> outcome.content])
                              ELSE answers
               /\ IF res.raised
                  THEN /\ phase' = "aborted"
                       /\ failed' = failed \cup {desc}
                       /\ UNCHANGED ai_mappings
                  ELSE /\ ai_mappings' = Append(ai_mappings, [desc |-> desc, value |-> res.value])
                       /\ UNCHANGED << phase, failed >>
  /\ UNCHANGED << df, pc, uncategorized, unique_descriptions, writer, trace, startCat, fnVars >>

\* master_df['ai_map'] = ... and the two assignments on the uncategorized rows
FallbackApply ==
  /\ phase = "call"
  /\ Len(ai_mappings) = Len(unique_descriptions)
  /\ Wrote(Fallback, fallback_apply(df, uncategorized, ai_mappings))
  /\ Advance
  /\ UNCHANGED << aiVars, trace, startCat, fnVars >>

\* master_df = apply_gatanili_tanxa_restrictions(master_df)
Restrict ==
  /\ AtStage(Restriction)
  /\ CatCol \in df.cols
  /\ Wrote(Restriction, apply_gatanili_tanxa_restrictions(df))
  /\ trace' = Append(trace, Restriction)
  /\ Advance
  /\ UNCHANGED << aiVars, startCat, fnVars >>

Next == Resolve \/ ChainStep \/ FallbackMask \/ AiCall \/ FallbackApply \/ Restrict

Spec == Init /\ [][Next]_vars

MainSpec == MainInit /\ [][Next]_vars

\* ---------------------------------------------- one function on its own

pipelineVars == << df, pc, phase, uncategorized, unique_descriptions, ai_mappings,
                   requests, failed, answers, writer, trace, startCat >>

\* any frame: with or without the category columns, rows classified or not; for
\* the resolver also with or without the Source Account column
FnInit ==
  /\ \E n \in 1..MaxFnRecs :
       \/ \E rows \in [1..n -> FnRows] \cup [1..n -> BtRows] : \E withCat \in BOOLEAN :
            fnIn = [ cols |-> IF withCat THEN {SrcAcctCol, MapCol, CatCol, SubCol} ELSE {},
                     rows |-> [i \in 1..n |->
                                 IF withCat THEN rows[i]
                                 ELSE [rows[i] EXCEPT !.cat = None, !.sub = None]] ]
       \/ \E rows \in [1..n -> AcctRows] : \E withCat \in BOOLEAN, withSource \in BOOLEAN :
            fnIn = [ cols |-> (IF withCat THEN {CatCol, SubCol} ELSE {})
                                \cup (IF withSource THEN {SrcAcctCol} ELSE {}),
                     rows |-> [i \in 1..n |->
                                 [rows[i] EXCEPT
                                    !.cat = IF withCat THEN @ ELSE None,
                                    !.sub = IF withCat THEN @ ELSE None,
                                    !.sacct = IF withSource THEN @ ELSE None]] ]
  /\ fn = "none" /\ out1 = EmptyFrame /\ out2 = EmptyFrame
  /\ accounts = INTERNAL_ACCOUNTS /\ pair = <<>>
  /\ df = EmptyFrame /\ pc = 0 /\ phase = "fn"
  /\ uncategorized = <<>> /\ unique_descriptions = <<>> /\ ai_mappings = <<>>
  /\ requests = <<>> /\ failed = {} /\ answers = <<>>
  /\ writer = <<>> /\ trace = <<>> /\ startCat = <<>>

\* df = rule(df); df = rule(df)
RuleTwice ==
  /\ phase = "fn" /\ fn = "none"
  /\ \E name \in ChainRules :
       /\ fn' = name
       /\ out1' = ApplyRule(name, fnIn)
       /\ out2' = ApplyRule(name, ApplyRule(name, fnIn))
  /\ UNCHANGED << fnIn, accounts, pair, pipelineVars >>

\* df = apply_gatanili_tanxa_restrictions(df), twice; a frame without the
\* category column raises KeyError
RestrictTwice ==
  /\ phase = "fn" /\ fn = "none"
  /\ CatCol \in fnIn.cols
  /\ fn' = Restriction
  /\ out1' = apply_gatanili_tanxa_restrictions(fnIn)
  /\ out2' = apply_gatanili_tanxa_restrictions(apply_gatanili_tanxa_restrictions(fnIn))
  /\ UNCHANGED << fnIn, accounts, pair, pipelineVars >>

\* df = map_internal_transfers(df, internal_accounts_list), once and twice
ResolveTwice ==
  /\ phase = "fn" /\ fn = "none"
  /\ \E internal_accounts_list \in Registries :
       /\ accounts' = internal_accounts_list
       /\ out1' = map_internal_transfers(fnIn, internal_accounts_list)
       /\ out2' = map_internal_transfers(map_internal_transfers(fnIn, internal_accounts_list),
                                         internal_accounts_list)
  /\ fn' = Resolver
  /\ UNCHANGED << fnIn, pair, pipelineVars >>

FnNext == RuleTwice \/ RestrictTwice \/ ResolveTwice

FnSpec == FnInit /\ [][FnNext]_vars

\* ------------------------------------------- two rules one after the other

\* any frame of rows the rules read, with or without the category columns
PairInit ==
  /\ \E n \in 1..MaxPairRecs : \E rows \in [1..n -> FnRows] : \E withCat \in BOOLEAN :
       fnIn = [ cols |-> IF withCat THEN {SrcAcctCol, MapCol, CatCol, SubCol} ELSE {},
                rows |-> [i \in 1..n |->
                            IF withCat THEN rows[i]
                            ELSE [rows[i] EXCEPT !.cat = None, !.sub = None]] ]
  /\ fn = "none" /\ out1 = EmptyFrame /\ out2 = EmptyFrame
  /\ accounts = INTERNAL_ACCOUNTS /\ pair = <<>>
  /\ df = EmptyFrame /\ pc = 0 /\ phase = "fn"
  /\ uncategorized = <<>> /\ unique_descriptions = <<>> /\ ai_mappings = <<>>
  /\ requests = <<>> /\ failed = {} /\ answers = <<>>
  /\ writer = <<>> /\ trace = <<>> /\ startCat = <<>>

\* df = ruleA(df); df = ruleB(df)  next to  df = ruleB(df); df = ruleA(df)
RulePair ==
  /\ phase = "fn" /\ fn = "none"
  /\ \E a, b \in DOMAIN Chain :
       /\ a < b
       /\ pair' = <<Chain[a], Chain[b]>>
       /\ out1' = ApplyRule(Chain[b], ApplyRule(Chain[a], fnIn))
       /\ out2' = ApplyRule(Chain[a], ApplyRule(Chain[b], fnIn))
  /\ fn' = "pair"
  /\ UNCHANGED << fnIn, accounts, pipelineVars >>

PairNext == RulePair

PairSpec == PairInit /\ [][PairNext]_vars

\* ---------------------------------------------------- the normalizer alone

\* any sheet
NormInit ==
  /\ \E n \in 1..MaxSheetRows : \E rows \in [1..n -> SheetRows] :
       fnIn = [cols |-> {}, rows |-> rows]
  /\ fn = "none" /\ out1 = EmptyFrame /\ out2 = EmptyFrame
  /\ accounts = INTERNAL_ACCOUNTS /\ pair = <<>>
  /\ df = EmptyFrame /\ pc = 0 /\ phase = "fn"
  /\ uncategorized = <<>> /\ unique_descriptions = <<>> /\ ai_mappings = <<>>
  /\ requests = <<>> /\ failed = {} /\ answers = <<>>
  /\ writer = <<>> /\ trace = <<>> /\ startCat = <<>>

\* df = process_statement(filepath, config.FILE_CONFIGS[file_key])
ProcessStatement ==
  /\ phase = "fn" /\ fn = "none"
  /\ \E file_key \in DOMAIN FILE_CONFIGS :
       out1' = process_statement(fnIn, file_key)
  /\ fn' = "process_statement"
  /\ UNCHANGED << fnIn, accounts, pair, out2, pipelineVars >>

NormNext == ProcessStatement

NormSpec == NormInit /\ [][NormNext]_vars

\* ------------------------------------------------------------------ claims

Elems(seq) == {seq[j] : j \in DOMAIN seq}

\* the step now taken starts the given stage
Starts(stage) == trace' = Append(trace, stage)

\* C1 - Category stability: in a run of the pipeline, a category that is not null
\* is never changed, nor its sub-category, by the resolver, a chain rule or the
\* fallback step; the only change to it is the restriction filter turning
\* 'gatanili tanxa' into 'sxva'.
C1_CategoryStability ==
  [][\A i \in Idx(df) :
       df.rows[i].cat # None =>
         \/ /\ df'.rows[i].cat = df.rows[i].cat
            /\ df'.rows[i].sub = df.rows[i].sub
         \/ /\ Starts(Restriction)
            /\ df.rows[i].cat = GataniliTanxa
            /\ df'.rows[i].cat = Sxva]_vars

\* a row the first rule classified although a later rule matches it too, next to
\* a row the restriction filter demoted, at the end of the run
C1_Witness ==
  /\ phase = "done"
  /\ \E i \in Idx(df) :
       /\ writer[i] = "apply_bt_specific_rules"
       /\ beta_girchi_match(df.rows[i])
       /\ df.rows[i].cat = "bt"
  /\ \E j \in Idx(df) : writer[j] = Restriction /\ df.rows[j].cat = Sxva

\* the rules, by position in the chain, whose predicate the row satisfies
Matching(r) == {a \in DOMAIN Chain : RuleMatch(Chain[a], r)}

\* C2 - First-match-wins: a row whose category is null when the chain starts and
\* which satisfies the predicates of a rule A and of a later rule B (A the first
\* rule it satisfies) has rule A's target as its category when the pipeline
\* returns.
C2_FirstMatchWins ==
  phase = "done" =>
    \A i \in Idx(df) :
      (startCat[i] = None /\ Cardinality(Matching(df.rows[i])) >= 2) =>
        df.rows[i].cat = RuleTarget(Chain[Least(Matching(df.rows[i]))])

\* C3 - Pipeline postcondition: when the pipeline returns, every row has a
\* category and an internal_map that are not null, whatever the service answered.
C3_Postcondition ==
  phase = "done" =>
    \A i \in Idx(df) : df.rows[i].cat # None /\ df.rows[i].imap # None

\* C4 - Fail-closed fallback: a request that raises does not abort the run, and
\* the rows with null category and that description end 'Uncategorized' with an
\* empty sub-category.
C4_FailClosed ==
  /\ failed # {} => phase # "aborted"
  /\ phase = "done" =>
       \A i \in Idx(df) :
         (uncategorized[i] /\ df.rows[i].desc \in failed) =>
           df.rows[i].cat = Uncategorized /\ df.rows[i].sub = ""

\* the distinct descriptions, neither null nor empty, of the rows left without a
\* category by the chain
Needed ==
  {df.rows[i].desc : i \in {j \in Idx(df) : uncategorized[j]}} \ {NaN, <<>>}

\* C5 - Dedup call count: once the fallback step is over (the run returned or the
\* step raised), the service has been requested exactly once for each of the M
\* descriptions needing it and for no other, whether or not requests failed.
C5_DedupCallCount ==
  phase \in {"done", "aborted"} =>
    /\ Len(requests) = Cardinality(Needed)
    /\ Elems(requests) = Needed

\* source and partner account both in the registry, distinct and not empty
IsInternalTransfer(r) ==
  /\ r.sacct \in INTERNAL_ACCOUNTS
  /\ r.pacct \in INTERNAL_ACCOUNTS
  /\ r.sacct # r.pacct
  /\ r.sacct # "" /\ r.pacct # ""

\* C6 - Internal transfer precedence: when the pipeline returns, every row whose
\* source and partner account are both in the registry, distinct and not empty
\* has category 'konvertacia' and sub-category 'Internal account transfer',
\* whatever rule predicates it satisfies.
C6_InternalTransferPrecedence ==
  phase = "done" =>
    \A i \in Idx(df) :
      IsInternalTransfer(df.rows[i]) =>
        /\ df.rows[i].cat = Konvertacia
        /\ df.rows[i].sub = "Internal account transfer"

\* an internal transfer whose description the FACEBK rule and the konvertacia
\* keyword rule both match, at the end of a run that also used the fallback
C6_Witness ==
  /\ phase = "done"
  /\ \E i \in Idx(df) :
       /\ IsInternalTransfer(df.rows[i])
       /\ facebook_match(df.rows[i]) /\ konvertacia_match(df.rows[i])
       /\ df.rows[i].sub = "Internal account transfer"
  /\ requests # <<>>

\* C7 as stated - Stage order: the restriction filter has run when the fallback
\* classifier starts, and no stage changes a category the fallback has assigned.
C7_FallbackLast ==
  [][/\ Starts(Fallback) => Restriction \in Elems(trace)
     /\ \A i \in Idx(df) :
          writer[i] = Fallback => df'.rows[i].cat = df.rows[i].cat]_vars

\* C7 as amended - Stage order: the stages start in the order resolver, the
\* sixteen rules, fallback classifier, restriction filter; the only change made to
\* a category the fallback has assigned is the restriction filter turning
\* 'gatanili tanxa' into 'sxva'.
C7_StageOrder ==
  [][/\ trace' # trace =>
          trace' = SubSeq(<<Resolver>> \o Chain \o <<Fallback, Restriction>>,
                          1, Len(trace'))
     /\ \A i \in Idx(df) :
          (writer[i] = Fallback /\ df'.rows[i].cat # df.rows[i].cat) =>
            /\ Starts(Restriction)
            /\ df.rows[i].cat = GataniliTanxa
            /\ df'.rows[i].cat = Sxva]_vars

\* a row the fallback classified and the restriction filter then demoted
C7_Witness ==
  /\ phase = "done"
  /\ \E i \in Idx(df) :
       /\ uncategorized[i]
       /\ writer[i] = Restriction
       /\ df.rows[i].cat = Sxva
  /\ trace = <<Resolver>> \o Chain \o <<Fallback, Restriction>>

\* C8 - Restriction backstop idempotence: applying the restriction filter twice
\* gives the frame that applying it once gives.
C8_RestrictionIdempotent == fn = Restriction => out2 = out1

\* the filter demoted one row and left another 'gatanili tanxa'
C8_Witness ==
  /\ fn = Restriction
  /\ \E i \in Idx(fnIn) :
       fnIn.rows[i].cat = GataniliTanxa /\ out1.rows[i].cat = Sxva
  /\ \E j \in Idx(fnIn) : out1.rows[j].cat = GataniliTanxa

\* C9 - Null-guard idempotence: applying any one chain rule twice gives the
\* frame that applying it once gives.
C9_NullGuardIdempotent == fn \in ChainRules => out2.rows = out1.rows

\* C10 - Restriction filter result: a row with category 'gatanili tanxa' keeps it
\* if and only if its lower-cased description contains one of the four approved
\* full names, and otherwise gets category 'sxva' and sub-category 'gatanili
\* tanxa restriction applied'; every other row is left as it is.
C10_RestrictionResult ==
  fn = Restriction =>
    \A i \in Idx(fnIn) :
      LET r == fnIn.rows[i]
          listed == \E name \in approved_names : PyIn(name, LowerText(Str(r.desc)))
      IN  out1.rows[i] =
            IF r.cat = GataniliTanxa /\ ~ listed
            THEN [r EXCEPT !.cat = Sxva, !.sub = "gatanili tanxa restriction applied"]
            ELSE r

\* one row kept through a name written in capitals, one row demoted although its
\* partner name is an approved name
C10_Witness ==
  /\ fn = Restriction
  /\ \E i \in Idx(fnIn) :
       /\ fnIn.rows[i].cat = GataniliTanxa
       /\ "VAXTANGI" \in Elems(fnIn.rows[i].desc)
       /\ out1.rows[i].cat = GataniliTanxa
  /\ \E j \in Idx(fnIn) :
       /\ fnIn.rows[j].cat = GataniliTanxa
       /\ fnIn.rows[j].pname = <<"herman", " ", "sabo">>
       /\ out1.rows[j].cat = Sxva

\* content that is not the two-field result: no JSON, JSON that is no object, or
\* an object without 'category' or without 'subcategory'
Malformed(content) ==
  \/ content.kind # "object"
  \/ ~ ({"category", "subcategory"} \subseteq DOMAIN content.value.d)

\* C11 - Malformed service response: when the pipeline returns, every row that
\* had a null category before the fallback and whose description was answered
\* with content that is not the two-field result has category 'Uncategorized'
\* and an empty sub-category.
C11_MalformedResponse ==
  phase = "done" =>
    \A i \in Idx(df) :
      (uncategorized[i] /\ \E a \in Elems(answers) :
                             a.desc = df.rows[i].desc /\ Malformed(a.content)) =>
        df.rows[i].cat = Uncategorized /\ df.rows[i].sub = ""

\* C12 - Allow-list enforced at assignment: a row to which the named-person
\* withdrawal rule has assigned 'gatanili tanxa' keeps that category in every
\* later step, so the restriction filter demotes none of them to 'sxva'.
C12_AllowListAtAssignment ==
  [][\A i \in Idx(df) :
       writer[i] = "apply_specific_people_gatanili_rule" =>
         df'.rows[i].cat = GataniliTanxa]_vars

\* the order the chain is said to have: each rule with the category it writes
C13_Order ==
  << <<"apply_bt_specific_rules", "bt">>,
     <<"apply_beta_girchi_rule", Shemowiruloba>>,
     <<"apply_specific_people_gatanili_rule", GataniliTanxa>>,
     <<"apply_salary_name_mapping_rule", Xelfasi>>,
     <<"apply_rezervis_tanxa_rule", Shemowiruloba>>,
     <<"apply_kkk_salary_rule", Xelfasi>>,
     <<"apply_sakomis_commission_rule", "sakomisio">>,
     <<"apply_facebook_ads_rule", "reklama">>,
     <<"apply_konvertacia_rule", Konvertacia>>,
     <<"apply_server_services_rule", "serverebi">>,
     <<"apply_sapensio_salary_rule", Xelfasi>>,
     <<"apply_montajis_safasuri_rule", Xelfasi>>,
     <<"apply_merchi_keyword_rule", "merchi">>,
     <<"apply_dazgveva_rule", "dazgveva">>,
     <<"apply_mevafinansebbts_rule", Shemowiruloba>>,
     <<"apply_utility_companies_rule", "komunaluri">> >>

\* C13 - Chain order: the stages started so far are the resolver followed by the
\* rules in the order BT amounts, beta.girchi, named-person withdrawal,
\* named-person salary, rezervis tanxa, kkk, sakomis, FACEBK, konvertacia,
\* service providers, sapensio, montajis safasuri, merchi, dazgv,
\* mevafinansebbts, utility providers; a row a rule has classified carries that
\* rule's category; when the pipeline returns each rule has run exactly once.
C13_ChainOrder ==
  /\ \A k \in DOMAIN trace :
       /\ k = 1 => trace[k] = Resolver
       /\ (k > 1 /\ k <= Len(C13_Order) + 1) => trace[k] = C13_Order[k - 1][1]
  /\ \A i \in Idx(df) : \A k \in DOMAIN C13_Order :
       writer[i] = C13_Order[k][1] => df.rows[i].cat = C13_Order[k][2]
  /\ phase = "done" =>
       \A k \in DOMAIN C13_Order :
         Cardinality({j \in DOMAIN trace : trace[j] = C13_Order[k][1]}) = 1

\* the run returned; the rezervis tanxa rule classified a row the later
\* commission rule matches too, and the utility rule, last, classified another
C13_Witness ==
  /\ phase = "done"
  /\ Len(trace) = Len(C13_Order) + 3
  /\ \E i \in Idx(df) :
       /\ writer[i] = "apply_rezervis_tanxa_rule"
       /\ sakomis_match(df.rows[i])
  /\ \E j \in Idx(df) : writer[j] = "apply_utility_companies_rule"

\* a string without its surrounding whitespace
Trimmed(x) == IF x = A1Padded THEN A1 ELSE x

\* C14 - internal_map value: after the resolver every row has internal_map
\* 'Internal Transfer' if and only if its partner account, as a string without
\* surrounding whitespace, is in the registry, and 'External' otherwise; with an
\* empty registry every row is 'External' and keeps the category it had.
C14_InternalMapValue ==
  fn = Resolver =>
    /\ \A i \in Idx(fnIn) :
         out1.rows[i].imap =
           IF Trimmed(StrLabel(fnIn.rows[i].pacct)) \in accounts
           THEN "Internal Transfer" ELSE "External"
    /\ accounts = {} =>
         \A i \in Idx(fnIn) :
           /\ out1.rows[i].imap = "External"
           /\ out1.rows[i].cat = fnIn.rows[i].cat
           /\ out1.rows[i].sub = fnIn.rows[i].sub

\* C15 - Transfer auto-classification set: the resolver writes 'konvertacia'
\* and 'Internal account transfer' on exactly the rows whose source and partner
\* account are both in the registry, whose partner account is neither empty nor
\* 'nan' and whose source account differs from the partner account, whatever
\* category they had; every other row keeps its category and sub-category.
C15_TransferSet ==
  fn = Resolver =>
    \A i \in Idx(fnIn) :
      LET r == fnIn.rows[i]
          transfer == /\ r.sacct \in accounts
                      /\ r.pacct \in accounts
                      /\ r.pacct \notin {"", "nan"}
                      /\ r.sacct # r.pacct
      IN  /\ out1.rows[i].cat = IF transfer THEN Konvertacia ELSE r.cat
          /\ out1.rows[i].sub = IF transfer THEN "Internal account transfer" ELSE r.sub

\* a transfer between two registry accounts lost the category it had, next to a
\* row from a registry account to itself that kept its own
C15_Witness ==
  /\ fn = Resolver
  /\ \E i \in Idx(fnIn) :
       /\ fnIn.rows[i].cat = Xelfasi
       /\ out1.rows[i].cat = Konvertacia
       /\ out1.rows[i].sub = "Internal account transfer"
  /\ \E j \in Idx(fnIn) :
       /\ fnIn.rows[j].pacct = A1 /\ fnIn.rows[j].sacct = A1
       /\ out1.rows[j].cat = Xelfasi

\* C16 - Restricted category at pipeline end: when the pipeline returns, every
\* row with category 'gatanili tanxa' has a description that contains, whatever
\* its case, one of the four approved full names, whether a rule or the service
\* assigned the category.
C16_RestrictedAtEnd ==
  phase = "done" =>
    \A i \in Idx(df) :
      df.rows[i].cat = GataniliTanxa =>
        \E name \in approved_names : PyIn(name, LowerText(Str(df.rows[i].desc)))

\* the run returned with a row the named-person rule classified 'gatanili
\* tanxa', its name written in capitals, and a row for which the service answered
\* 'gatanili tanxa' and which is now 'sxva'
C16_Witness ==
  /\ phase = "done"
  /\ \E i \in Idx(df) :
       /\ df.rows[i].cat = GataniliTanxa
       /\ "VAXTANGI" \in Elems(df.rows[i].desc)
  /\ \E j \in Idx(df) :
       /\ uncategorized[j]
       /\ \E a \in Elems(answers) :
            /\ a.desc = df.rows[j].desc
            /\ a.content.kind = "object"
            /\ Get(a.content.value, "category") = GataniliTanxa
       /\ df.rows[j].cat = Sxva

\* C17 - Fallback distribution: in the step that ends the fallback, every row
\* with a null category whose description the service answered with a two-field
\* result (c, s) gets category c and sub-category s, and every row that had a
\* category keeps it and its sub-category.
C17_FallbackDistribution ==
  [][(phase = "call" /\ pc' = pc + 1) =>
       \A i \in Idx(df) :
         /\ df.rows[i].cat # None =>
              /\ df'.rows[i].cat = df.rows[i].cat
              /\ df'.rows[i].sub = df.rows[i].sub
         /\ df.rows[i].cat = None =>
              \A a \in Elems(answers) :
                (a.desc = df.rows[i].desc /\ ~ Malformed(a.content)) =>
                  /\ df'.rows[i].cat = a.content.value.d["category"]
                  /\ df'.rows[i].sub = a.content.value.d["subcategory"]]_vars

\* the fallback is over and the filter still to run: two rows share a
\* description, the service's answer is on the one no rule classified and the
\* other still has what the BT rule gave it
C17_Witness ==
  /\ phase = "stage" /\ pc = Len(Stages)
  /\ \E i, j \in Idx(df) :
       /\ df.rows[i].desc = df.rows[j].desc
       /\ writer[i] = Fallback
       /\ df.rows[i].cat = Sxva /\ df.rows[i].sub = "ai"
       /\ writer[j] = "apply_bt_specific_rules"
       /\ df.rows[j].cat = "bt"

\* C18 - Absent description in fallback: no request is ever made for a null or
\* an empty description, and when the pipeline returns every row that reached the
\* fallback with a null category and such a description has category
\* 'Uncategorized' and an empty sub-category.
C18_AbsentDescription ==
  /\ NaN \notin Elems(requests) /\ <<>> \notin Elems(requests)
  /\ phase = "done" =>
       \A i \in Idx(df) :
         (uncategorized[i] /\ df.rows[i].desc \in {NaN, <<>>}) =>
           df.rows[i].cat = Uncategorized /\ df.rows[i].sub = ""

\* the run returned; a row without description and a row with an empty one were
\* left to the fallback and are 'Uncategorized', and nothing was requested
C18_Witness ==
  /\ phase = "done"
  /\ \E i, j \in Idx(df) :
       /\ uncategorized[i] /\ df.rows[i].desc = NaN
       /\ df.rows[i].cat = Uncategorized /\ df.rows[i].sub = ""
       /\ uncategorized[j] /\ df.rows[j].desc = <<>>
       /\ df.rows[j].cat = Uncategorized /\ df.rows[j].sub = ""
  /\ requests = <<>>

\* C19 - Order-insensitivity outside overlaps: for two rules A and B and a
\* frame in which no row with a null category satisfies the predicates of both,
\* A then B gives the rows that B then A gives; and a row with a null category
\* that satisfies the predicate of one of the two only has that rule's category
\* after either order.
C19_OrderInsensitive ==
  fn = "pair" =>
    LET A == pair[1]
        B == pair[2]
        free(r) == r.cat = None
    IN  /\ (\A i \in Idx(fnIn) :
              ~ (free(fnIn.rows[i]) /\ RuleMatch(A, fnIn.rows[i])
                                    /\ RuleMatch(B, fnIn.rows[i])))
             => out1.rows = out2.rows
        /\ \A i \in Idx(fnIn) :
             LET r == fnIn.rows[i]
             IN  /\ (free(r) /\ RuleMatch(A, r) /\ ~ RuleMatch(B, r)) =>
                      out1.rows[i].cat = RuleTarget(A) /\ out2.rows[i].cat = RuleTarget(A)
                 /\ (free(r) /\ RuleMatch(B, r) /\ ~ RuleMatch(A, r)) =>
                      out1.rows[i].cat = RuleTarget(B) /\ out2.rows[i].cat = RuleTarget(B)

\* C20 - Exact-amount rule: the BT rule gives a row the category 'bt' if and
\* only if the row's category is null, its paid-out amount is zero or absent, and
\* either its source is 'BT BOG.xlsx' and its paid-in amount 175, or its source
\* is 'BT TBC GEL.xlsx' and its paid-in amount 175, 176 or 200; every other row
\* is left as it is.
C20_ExactAmount ==
  fn = "apply_bt_specific_rules" =>
    \A i \in Idx(fnIn) :
      LET r == fnIn.rows[i]
          exact == /\ r.cat = None
                   /\ r.paidOut \in {0, NoAmount}
                   /\ \/ r.src = "BT BOG.xlsx" /\ r.paidIn = 175
                      \/ r.src = "BT TBC GEL.xlsx" /\ r.paidIn \in {175, 176, 200}
      IN  IF exact THEN out1.rows[i].cat = "bt" ELSE out1.rows[i] = r

\* the rules with one keyword, each with the keyword it looks for
C21_Keyword ==
  [ apply_beta_girchi_rule        |-> <<"beta", ".", "girchi">>,
    apply_rezervis_tanxa_rule     |-> <<"rezervis", " ", "tanxa">>,
    apply_kkk_salary_rule         |-> <<"kkk">>,
    apply_sakomis_commission_rule |-> <<"sakomis">>,
    apply_facebook_ads_rule       |-> <<"FACEBK">>,
    apply_konvertacia_rule        |-> <<"konvertacia">>,
    apply_sapensio_salary_rule    |-> <<"sapensio">>,
    apply_montajis_safasuri_rule  |-> <<"montajis", " ", "safasuri">>,
    apply_merchi_keyword_rule     |-> <<"merchi">>,
    apply_dazgveva_rule           |-> <<"dazgv">>,
    apply_mevafinansebbts_rule    |-> <<"mevafinansebbts">> ]

\* C21 - Literal keyword matching: applied to a frame that has the category
\* column, a rule with one keyword gives a row its category if and only if the
\* row's category is null and its description contains the keyword as it is
\* written, whatever the case; the beta.girchi rule matches the dot only.
C21_LiteralKeyword ==
  (fn \in DOMAIN C21_Keyword /\ CatCol \in fnIn.cols) =>
    \A i \in Idx(fnIn) :
      LET r == fnIn.rows[i]
          literal == /\ r.desc # NaN
                     /\ PyIn(LowerText(C21_Keyword[fn]), LowerText(r.desc))
      IN  IF r.cat = None /\ literal
          THEN out1.rows[i].cat = RuleTarget(fn)
          ELSE out1.rows[i] = r

\* the frame with the same internal_map on every row
Tagged(frame, tag) ==
  [frame EXCEPT !.rows = [i \in Idx(frame) |-> [frame.rows[i] EXCEPT !.imap = tag]]]

\* C22 - Frame of the classification stages: no step of the pipeline adds or
\* removes a row or changes a row's description, date, source file, paid-in,
\* paid-out or balance; only the resolver changes internal_map, and what a later
\* stage does is the same whatever internal_map holds.
C22_StageFrame ==
  [][/\ Len(df'.rows) = Len(df.rows)
     /\ \A i \in Idx(df) :
          /\ df'.rows[i].desc = df.rows[i].desc
          /\ df'.rows[i].date = df.rows[i].date
          /\ df'.rows[i].src = df.rows[i].src
          /\ df'.rows[i].paidIn = df.rows[i].paidIn
          /\ df'.rows[i].paidOut = df.rows[i].paidOut
          /\ df'.rows[i].balance = df.rows[i].balance
          /\ ~ Starts(Resolver) => df'.rows[i].imap = df.rows[i].imap
     /\ \A tag \in {"Internal Transfer", "External"} :
          /\ \A name \in ChainRules :
               Starts(name) => ApplyRule(name, Tagged(df, tag)) = Tagged(df', tag)
          /\ (phase = "call" /\ pc' = pc + 1) =>
               fallback_apply(Tagged(df, tag), uncategorized, ai_mappings) = Tagged(df', tag)
          /\ Starts(Restriction) =>
               apply_gatanili_tanxa_restrictions(Tagged(df, tag)) = Tagged(df', tag)]_vars

\* the run returned: a row marked 'Internal Transfer' that a chain rule
\* classified, next to a row marked 'External' that the restriction filter demoted
C22_Witness ==
  /\ phase = "done"
  /\ \E i \in Idx(df) :
       /\ df.rows[i].imap = "Internal Transfer"
       /\ writer[i] \in ChainRules
  /\ \E j \in Idx(df) :
       /\ df.rows[j].imap = "External"
       /\ writer[j] = Restriction

\* C23 - Dated records only: every row the normalizer returns has a date, and
\* the rows it returns are the rows of the sheet whose Date cell holds a date;
\* rows whose Date cell is empty or is no date are dropped.
C23_DatedOnly ==
  fn = "process_statement" =>
    /\ \A i \in Idx(out1) : out1.rows[i].date \notin {None, NaT}
    /\ Len(out1.rows) =
         Cardinality({i \in Idx(fnIn) : fnIn.rows[i].date = "2024-01-15 00:00:00"})

\* C24 - Source account in the orchestrated run: the frame main builds has no
\* Source Account column; once the resolver has run every row's source account
\* is the empty string and the resolver has classified no row; when the pipeline
\* returns every 'konvertacia' was written by the konvertacia keyword rule or by
\* the fallback.
C24_NoSourceAccount ==
  /\ pc = 1 => SrcAcctCol \notin df.cols
  /\ pc > 1 => \A i \in Idx(df) : df.rows[i].sacct = ""
  /\ \A i \in Idx(df) : writer[i] # Resolver
  /\ phase = "done" =>
       \A i \in Idx(df) :
         df.rows[i].cat = Konvertacia => writer[i] \in {"apply_konvertacia_rule", Fallback}

\* the run returned: a row to a registry account that the keyword rule made
\* 'konvertacia', next to a row for which the service answered 'konvertacia'
C24_Witness ==
  /\ phase = "done"
  /\ \E i \in Idx(df) :
       /\ df.rows[i].pacct \in INTERNAL_ACCOUNTS
       /\ df.rows[i].imap = "Internal Transfer"
       /\ df.rows[i].cat = Konvertacia /\ writer[i] = "apply_konvertacia_rule"
  /\ \E j \in Idx(df) :
       df.rows[j].cat = Konvertacia /\ writer[j] = Fallback

\* C25 - Utility rule field: the utility rule gives a row the category
\* 'komunaluri' if and only if the row's category is null and its partner name
\* contains 'magti' or 'silq'; a row whose description holds one of the names
\* while its partner name is absent or holds neither is left as it is.
C25_UtilityField ==
  fn = "apply_utility_companies_rule" =>
    \A i \in Idx(fnIn) :
      LET r == fnIn.rows[i]
          named == /\ r.pname # NaN
                   /\ \E c \in {<<"magti">>, <<"silq">>} : PyIn(c, LowerText(r.pname))
      IN  IF r.cat = None /\ named
          THEN out1.rows[i].cat = "komunaluri"
          ELSE out1.rows[i] = r

====
